---- MODULE Spec2Model ----
(***************************************************************************)
(* A model of the content-based recommender of news-reco:                  *)
(*   src/src/ml/recommender.py  ContentBasedRecommender                    *)
(*   src/src/ml/trainer.py      RecommenderTrainer                         *)
(*   src/src/api/main.py        the serving process                        *)
(*                                                                         *)
(* Conventions.                                                            *)
(*  - A Python value that may be None / NaN is a tuple: <<>> for None/NaN, *)
(*    <<v>> for the value v.                                               *)
(*  - A text is the sequence of its words.                                 *)
(*  - Row positions and index labels are 0-based, as in Python; TLA+       *)
(*    sequences are 1-based, so position p is element p + 1.               *)
(*  - A similarity is a double.  It is kept as the exact value it rounds,   *)
(*    the reduced fraction num/den of the SQUARE of the cosine (the cosine *)
(*    itself is irrational; squaring is strictly increasing on [0, 1], so  *)
(*    order, ties, "= 0" and "> 0" are those of the cosine), and as ulps,  *)
(*    the units in the last place by which the double lies above that      *)
(*    value where this decides a comparison: at the exact value 1.         *)
(***************************************************************************)
EXTENDS Integers, Sequences, FiniteSets, TLC

VARIABLES
    recommender,   \* a ContentBasedRecommender built by its constructor and used directly
    trainers,      \* the RecommenderTrainer instances: trainer name -> its fields
    files,         \* the model directory: file name -> pickled bytes, or None when absent
    argsortTies,   \* how this build's np.argsort orders equal keys (fixed for a run)
    calls,         \* the calls in flight on the recommender: caller -> the call's local variables
    app,           \* the serving process: the globals of src/src/api/main.py and the warehouse it reads
    outcome,       \* the last call: what was called, with what, and what it returned or raised
    objects,       \* the heap: table and recommender objects by address, and who holds which
    db             \* a DatabaseManager used directly, and the database file behind it

vars == <<recommender, trainers, files, argsortTies, calls, app, outcome, objects, db>>

----------------------------------------------------------------------------
(* Bounds of the model *)

\* the largest number of rows of a table handed to fit
MaxRows == 3
\* the largest n_recommendations asked for
MaxN == 2

----------------------------------------------------------------------------
(* Python values *)

None == <<>>
Some(v) == <<v>>
NaN == <<>>
NoError == "NoError"

Min(a, b) == IF a < b THEN a ELSE b
Max(a, b) == IF a > b THEN a ELSE b

\* s[start:stop] of Python, for any integers start and stop
PySlice(s, start, stop) ==
    LET len == Len(s)
        norm(i) == IF i < 0 THEN Max(0, len + i) ELSE Min(i, len)
    IN  SubSeq(s, norm(start) + 1, norm(stop))

\* s[::-1]
Reverse(s) == [i \in 1..Len(s) |-> s[Len(s) + 1 - i]]

\* series.fillna(value), for one cell
fillna(cell, value) == IF cell = NaN THEN value ELSE cell[1]

----------------------------------------------------------------------------
(* Exact fractions, for similarities *)

RECURSIVE GCD(_, _)
GCD(a, b) == IF b = 0 THEN a ELSE GCD(b, a % b)

Frac(num, den) == LET g == GCD(num, den) IN [num |-> num \div g, den |-> den \div g]

\* the double that lies ulps units in the last place above the exact value
Float64(exact, ulps) == [num |-> exact.num, den |-> exact.den, ulps |-> ulps]
Zero == Float64(Frac(0, 1), 0)

\* a/b < c/d for a, c >= 0 and b, d > 0, by comparing continued fractions
\* (no product is formed, so nothing overflows)
RECURSIVE FracLess(_, _, _, _)
FracLess(a, b, c, d) ==
    IF a \div b # c \div d THEN a \div b < c \div d
    ELSE IF c % d = 0 THEN FALSE
    ELSE IF a % b = 0 THEN TRUE
    ELSE FracLess(d, c % d, b, a % b)

Less(x, y) ==
    \/ FracLess(x.num, x.den, y.num, y.den)
    \/ x.num = y.num /\ x.den = y.den /\ x.ulps < y.ulps
Positive(x) == x.num > 0

----------------------------------------------------------------------------
(* TfidfVectorizer(max_features=500, min_df=1, max_df=1.0,                 *)
(*                 stop_words="english", ngram_range=(1, 2))               *)

Words == {"ml", "web", "the"}
StopWords == {"the"}

\* the analyzer: the words that are not stop words
Analyze(text) == SelectSeq(text, LAMBDA w : w \notin StopWords)

\* the features of a token sequence with ngram_range=(1, 2): a feature is a tuple,
\* <<w>> for a word and <<w1, w2>> for two adjacent words
FeaturesOf(tokens) ==
    {<<tokens[i]>> : i \in 1..Len(tokens)}
        \cup {<<tokens[i], tokens[i + 1]>> : i \in 1..(Len(tokens) - 1)}

\* the term frequency: how many times the feature occurs
Count(f, tokens) ==
    IF Len(f) = 1
    THEN Cardinality({i \in 1..Len(tokens) : tokens[i] = f[1]})
    ELSE Cardinality({i \in 1..(Len(tokens) - 1) : tokens[i] = f[1] /\ tokens[i + 1] = f[2]})

\* idf = ln((1 + n) / (1 + df)) + 1 (smooth_idf), in tenths: the logarithm is
\* ln(x) ~ 2(x - 1)/(x + 1), rounded to the nearest tenth, which gives the true
\* tenths for every n <= 4 (10, 12, 13, 14, 15, 17, 19)
IdfTenths(n, df) == 10 + (20 * (n - df) + (n + df + 2) \div 2) \div (n + df + 2)

UnfittedVectorizer == [vocabulary_ |-> None, idf_ |-> None]

\* vectorizer.fit_transform(documents): the vocabulary is every feature of the
\* corpus (the cap of 500 features is far above what the bounded corpora hold);
\* an empty vocabulary raises ValueError before the vectorizer is changed.
\* A matrix row holds tf * idf per feature; the L2 normalisation is applied where
\* the row is used (cosine_similarity normalises both of its arguments).
fit_transform(vectorizer, documents) ==
    LET tokens == [d \in 1..Len(documents) |-> Analyze(documents[d])]
        vocabulary == UNION {FeaturesOf(tokens[d]) : d \in 1..Len(documents)}
        df(f) == Cardinality({d \in 1..Len(documents) : f \in FeaturesOf(tokens[d])})
        idf == [f \in vocabulary |-> IdfTenths(Len(documents), df(f))]
    IN  IF vocabulary = {}
        THEN [raised |-> "ValueError", vectorizer |-> vectorizer, matrix |-> <<>>]
        ELSE [raised |-> NoError,
              vectorizer |-> [vocabulary_ |-> Some(vocabulary), idf_ |-> Some(idf)],
              matrix |-> [d \in 1..Len(documents) |->
                             [f \in vocabulary |-> Count(f, tokens[d]) * idf[f]]]]

\* vectorizer.transform([content])[0]: words outside the vocabulary weigh nothing
transform(vectorizer, content) ==
    LET tokens == Analyze(content)
        idf == vectorizer.idf_[1]
    IN  [f \in vectorizer.vocabulary_[1] |-> Count(f, tokens) * idf[f]]

----------------------------------------------------------------------------
(* sklearn.metrics.pairwise.cosine_similarity and np.argsort *)

RECURSIVE SumOver(_, _)
SumOver(S, g) ==
    IF S = {} THEN 0
    ELSE LET f == CHOOSE x \in S : TRUE IN g[f] + SumOver(S \ {f}, g)

Dot(u, v) == SumOver(DOMAIN u, [f \in DOMAIN u |-> u[f] * v[f]])

\* the nonzero weights of a row: weight -> how many features carry it
WeightBag(u) ==
    [w \in {u[f] : f \in DOMAIN u} \ {0} |-> Cardinality({f \in DOMAIN u : u[f] = w})]

\* The cosine of a row with a row equal to it is 1, but the double computed for
\* it need not be 1.0.  The row is divided by its norm sqrt(sum of squares) when
\* the matrix is built (TfidfVectorizer, norm="l2") and again inside
\* cosine_similarity, and the products are then summed, every operation rounding
\* to the nearest double.  With one nonzero weight w the result is exact
\* (sqrt(w * w) = w, w / w = 1, 1 * 1 = 1).  With several it depends on the
\* weights; carried out in IEEE-754 doubles for every row the corpora below can
\* hold, it gives 1.0000000000000002, one unit in the last place above 1.0:
\*   weights 13, 17, 13     "ml web" among "ml", "ml web", "web"
\*   weights 17, 17, 13     "ml web" among "", "ml web", "web"
\*   weights 13, 17, 26, 17 "web ml web" among "ml", "web ml web", "web web"
\*   weights 26, 17         "web web" among the same
\* (for example three weights 1/sqrt(3) = 0.5773502691896258 have the squares
\* 0.33333333333333337, whose sum is 1.0000000000000002).
UlpsAboveOne(u) ==
    LET bag == WeightBag(u)
    IN  CASE bag = (13 :> 2 @@ 17 :> 1) -> 1
          [] bag = (13 :> 1 @@ 17 :> 2) -> 1
          [] bag = (13 :> 1 @@ 17 :> 2 @@ 26 :> 1) -> 1
          [] bag = (17 :> 1 @@ 26 :> 1) -> 1
          [] OTHER -> 0

\* the cosine of two rows (squared, see the conventions); a zero row has
\* similarity 0 to everything, itself included
Cosine(u, v) ==
    IF Dot(u, u) = 0 \/ Dot(v, v) = 0 THEN Zero
    ELSE LET exact == Frac(Dot(u, v) * Dot(u, v), Dot(u, u) * Dot(v, v))
         IN  Float64(exact, IF exact.num = exact.den THEN UlpsAboveOne(v) ELSE 0)

\* cosine_similarity(x, matrix)[0]
cosine_similarity(x, matrix) == [i \in 1..Len(matrix) |-> Cosine(x, matrix[i])]

\* The orders np.argsort may give to equal keys.  Its default kind is
\* "quicksort", which is not stable: where equal keys land depends on the build
\* (insertion sort, introsort, a SIMD sorting network), though one build always
\* answers alike.  A build is a priority among positions; two are modelled, the
\* stable one (equal keys in position order) and its opposite.
TiePolicies ==
    LET P == 0..(MaxRows - 1)
    IN  {[a \in P |-> a], [a \in P |-> MaxRows - 1 - a]}

\* position a comes before position b in np.argsort(similarities)
Before(similarities, ties, a, b) ==
    \/ Less(similarities[a + 1], similarities[b + 1])
    \/ /\ similarities[a + 1] = similarities[b + 1]
       /\ ties[a] < ties[b]

\* np.argsort(similarities): the positions, least similarity first
argsort(similarities, ties) ==
    LET P == 0..(Len(similarities) - 1)
        rank(a) == Cardinality({b \in P : Before(similarities, ties, b, a)})
    IN  [i \in 1..Len(similarities) |-> CHOOSE a \in P : rank(a) = i - 1]

----------------------------------------------------------------------------
(* pandas.DataFrame: the columns, the index labels and the rows.  A row maps   *)
(* each column to a cell; a cell is NaN or <<value>>.                           *)

DataFrame(columns, index, rows) == [columns |-> columns, index |-> index, rows |-> rows]

\* len(df)
len(df) == Len(df.rows)

\* df.empty: no rows or no columns
empty(df) == len(df) = 0 \/ df.columns = {}

\* df[column] = values, for a column given as one cell per row
WithColumn(df, column, cells) ==
    DataFrame(df.columns \cup {column}, df.index,
              [i \in 1..len(df) |->
                  [c \in df.columns \cup {column} |->
                      IF c = column THEN cells[i] ELSE df.rows[i][c]]])

\* a dict, in insertion order: d[key] = value keeps the place of a key already there
DictSet(d, key, value) ==
    IF \E i \in 1..Len(d) : d[i].key = key
    THEN [i \in 1..Len(d) |-> IF d[i].key = key THEN [key |-> key, value |-> value] ELSE d[i]]
    ELSE Append(d, [key |-> key, value |-> value])

----------------------------------------------------------------------------
(* ContentBasedRecommender *)

\* __init__
ContentBasedRecommender ==
    [vectorizer |-> UnfittedVectorizer,
     tfidf_matrix |-> None,
     articles_df |-> None,
     article_mapping |-> <<>>]

\* {idx: row["article_id"] for idx, row in articles_df.iterrows()}: keyed by the
\* index LABEL of each row
RECURSIVE MappingUpTo(_, _)
MappingUpTo(df, k) ==
    IF k = 0 THEN <<>>
    ELSE DictSet(MappingUpTo(df, k - 1), df.index[k], df.rows[k]["article_id"])

article_mapping_of(df) == MappingUpTo(df, len(df))

\* articles_df["title"].fillna("") + " " + articles_df["content"].fillna("")
combined_text(df) ==
    [i \in 1..len(df) |-> fillna(df.rows[i]["title"], <<>>) \o fillna(df.rows[i]["content"], <<>>)]

\* fit, after its two checks: the assignments happen in the order of the code, so
\* a call that raises half-way keeps the assignments made before
fit_checked(self, articles_df) ==
    LET stored == [self EXCEPT !.articles_df = Some(articles_df)]
    IN  IF "article_id" \notin articles_df.columns THEN [self |-> stored, raised |-> "KeyError"]
        ELSE
        LET mapped == [stored EXCEPT !.article_mapping = article_mapping_of(articles_df)]
        IN  IF "title" \notin articles_df.columns THEN [self |-> mapped, raised |-> "KeyError"]
            ELSE
            LET ft == fit_transform(self.vectorizer, combined_text(articles_df))
            IN  IF ft.raised # NoError
                THEN [self |-> [mapped EXCEPT !.vectorizer = ft.vectorizer], raised |-> ft.raised]
                ELSE [self |-> [mapped EXCEPT !.vectorizer = ft.vectorizer,
                                              !.tfidf_matrix = Some(ft.matrix)],
                      raised |-> NoError]

\* a fit that stores the table before it checks it
fit_storing_first(self, articles_df) ==
    IF empty(articles_df) \/ "content" \notin articles_df.columns
    THEN [self |-> [self EXCEPT !.articles_df = Some(articles_df)], raised |-> "ValueError"]
    ELSE fit_checked(self, articles_df)

\* fit(articles_df): the recommender after the call and what the call raised
fit(self, articles_df) ==
    IF empty(articles_df) THEN [self |-> self, raised |-> "ValueError"]
    ELSE IF "content" \notin articles_df.columns THEN [self |-> self, raised |-> "ValueError"]
    ELSE fit_checked(self, articles_df)

\* the body of the loops of recommend and recommend_for_content, for one idx:
\* articles_df.iloc[idx] is by position, article[...] raises on a missing column,
\* article.get("source_name", "Unknown") gives the cell when the column is there
recommendation(articles_df, similarities, idx) ==
    IF idx >= len(articles_df) THEN [raised |-> "IndexError"]
    ELSE
    LET article == articles_df.rows[idx + 1]
    IN  IF "article_id" \notin DOMAIN article \/ "title" \notin DOMAIN article
        THEN [raised |-> "KeyError"]
        ELSE [raised |-> NoError,
              item |-> [article_id |-> article["article_id"],
                        title |-> article["title"],
                        similarity_score |-> similarities[idx + 1],
                        source |-> IF "source_name" \in DOMAIN article
                                   THEN article["source_name"] ELSE Some("Unknown")]]

\* the whole loop over the chosen positions: the list, or the first exception
recommendations(articles_df, similarities, indices) ==
    LET each == [k \in 1..Len(indices) |-> recommendation(articles_df, similarities, indices[k])]
        bad == {k \in 1..Len(indices) : each[k].raised # NoError}
    IN  IF bad # {}
        THEN [raised |-> each[CHOOSE k \in bad : \A j \in bad : k <= j].raised, returned |-> <<>>]
        ELSE [raised |-> NoError, returned |-> [k \in 1..Len(indices) |-> each[k].item]]

\* a slice that starts at the best row instead of after it
similar_indices_from_first(similarities, ties, n_recommendations) ==
    PySlice(Reverse(argsort(similarities, ties)), 0, n_recommendations + 1)

\* np.argsort(similarities)[::-1][1:n_recommendations + 1]
similar_indices(similarities, ties, n_recommendations) ==
    PySlice(Reverse(argsort(similarities, ties)), 1, n_recommendations + 1)

\* [idx for idx, aid in self.article_mapping.items() if aid == article_id]
article_indices(self, article_id) ==
    LET found == SelectSeq(self.article_mapping, LAMBDA e : e.value = Some(article_id))
    IN  [i \in 1..Len(found) |-> found[i].key]

\* recommend, from "Calculate similarities" on: article_idx, an index label, is
\* used as a row position of the matrix
recommend_similar(self, ties, article_idx, n_recommendations) ==
    LET matrix == self.tfidf_matrix[1]
    IN  IF article_idx >= Len(matrix) THEN [raised |-> "IndexError", returned |-> <<>>]
        ELSE
        LET similarities == cosine_similarity(matrix[article_idx + 1], matrix)
        IN  recommendations(self.articles_df[1], similarities,
                            similar_indices(similarities, ties, n_recommendations))

\* a recommend that raises for an identifier it does not find
recommend_raising_unknown(self, ties, article_id, n_recommendations) ==
    IF self.tfidf_matrix = None THEN [raised |-> "ValueError", returned |-> <<>>]
    ELSE IF article_indices(self, article_id) = <<>> THEN [raised |-> "KeyError", returned |-> <<>>]
    ELSE recommend_similar(self, ties, article_indices(self, article_id)[1], n_recommendations)

\* a recommend that answers an unfitted recommender with the empty list
recommend_unfitted_empty(self, ties, article_id, n_recommendations) ==
    IF self.tfidf_matrix = None THEN [raised |-> NoError, returned |-> <<>>]
    ELSE IF article_indices(self, article_id) = <<>> THEN [raised |-> NoError, returned |-> <<>>]
    ELSE recommend_similar(self, ties, article_indices(self, article_id)[1], n_recommendations)

\* recommend(article_id, n_recommendations)
recommend(self, ties, article_id, n_recommendations) ==
    IF self.tfidf_matrix = None THEN [raised |-> "ValueError", returned |-> <<>>]
    ELSE IF article_indices(self, article_id) = <<>> THEN [raised |-> NoError, returned |-> <<>>]
    ELSE recommend_similar(self, ties, article_indices(self, article_id)[1], n_recommendations)

\* a choice of the first rows of the corpus, unranked
top_indices_unranked(similarities, ties, n_recommendations) ==
    PySlice([i \in 1..Len(similarities) |-> i - 1], 0, n_recommendations)

\* np.argsort(similarities)[::-1][:n_recommendations]
top_indices(similarities, ties, n_recommendations) ==
    PySlice(Reverse(argsort(similarities, ties)), 0, n_recommendations)

\* a recommend_for_content that keeps every row it chose
recommend_for_content_unfiltered(self, ties, content, n_recommendations) ==
    IF self.tfidf_matrix = None THEN [raised |-> "ValueError", returned |-> <<>>]
    ELSE
    LET matrix == self.tfidf_matrix[1]
        similarities == cosine_similarity(transform(self.vectorizer, content), matrix)
    IN  recommendations(self.articles_df[1], similarities,
                        top_indices(similarities, ties, n_recommendations))

\* recommend_for_content(content, n_recommendations)
recommend_for_content(self, ties, content, n_recommendations) ==
    IF self.tfidf_matrix = None THEN [raised |-> "ValueError", returned |-> <<>>]
    ELSE
    LET matrix == self.tfidf_matrix[1]
        similarities == cosine_similarity(transform(self.vectorizer, content), matrix)
        chosen == top_indices(similarities, ties, n_recommendations)
        positive == SelectSeq(chosen, LAMBDA idx : Positive(similarities[idx + 1]))
    IN  recommendations(self.articles_df[1], similarities, positive)

\* get_statistics(): None stands for the empty dict of an unfitted recommender;
\* the sparsity 1 - nnz / (rows * columns) is kept as the fraction of zero cells
get_statistics(self) ==
    IF self.tfidf_matrix = None THEN None
    ELSE
    LET matrix == self.tfidf_matrix[1]
        columns == DOMAIN matrix[1]
        nnz == Cardinality({<<i, f>> \in (1..Len(matrix)) \X columns : matrix[i][f] # 0})
        cells == Len(matrix) * Cardinality(columns)
    IN  Some([num_articles |-> len(self.articles_df[1]),
              feature_matrix_shape |-> <<Len(matrix), Cardinality(columns)>>,
              vocabulary_size |-> Cardinality(self.vectorizer.vocabulary_[1]),
              sparsity |-> Frac(cells - nnz, cells)])

----------------------------------------------------------------------------
(* The inputs of the calls *)

AllColumns == {"article_id", "title", "content", "source_name"}

\* pandas' default index: the labels are the positions
RangeIndex(n) == [i \in 1..n |-> i - 1]

Row(article_id, title, content, source_name) ==
    [c \in AllColumns |->
        CASE c = "article_id" -> article_id
          [] c = "title" -> title
          [] c = "content" -> content
          [] c = "source_name" -> source_name]

\* the content of an article: only stop words, or one word
Contents == {<<"the">>, <<"ml">>}

\* a well-formed table: every column, the default index, the identifier of a row
\* its position, an empty title, any content
Article(i, content) == Row(Some(i - 1), Some(<<>>), Some(content), Some("Tech Blog"))

CleanFrames ==
    UNION {{DataFrame(AllColumns, RangeIndex(n), [i \in 1..n |-> Article(i, contents[i])]) :
                contents \in [1..n -> Contents]} : n \in 0..MaxRows}

\* df[df.columns without column]
DropColumn(df, column) ==
    DataFrame(df.columns \ {column}, df.index,
              [i \in 1..len(df) |-> [c \in df.columns \ {column} |-> df.rows[i][c]]])

\* the same rows under other index labels
WithIndex(df, index) == DataFrame(df.columns, index, df.rows)

\* a table whose rows are alike, half alike and unlike: the odd tables are made from it
Seeds ==
    {DataFrame(AllColumns, RangeIndex(3),
               <<Article(1, <<"ml">>), Article(2, <<"ml", "web">>), Article(3, <<"web">>)>>)}

\* tables a caller of fit may pass as well: a column missing, rows that share an
\* identifier, an index that is not the default one (a filtered or concatenated
\* table), cells that are NaN, a title with words
OddFrames ==
    UNION {{DropColumn(df, c) : c \in AllColumns}
           \cup {df,
                 WithColumn(df, "article_id", [i \in 1..len(df) |-> Some(0)]),
                 WithColumn(df, "title", [i \in 1..len(df) |-> IF i = 1 THEN NaN ELSE Some(<<"web">>)]),
                 WithColumn(df, "content", [i \in 1..len(df) |-> IF i = 1 THEN NaN ELSE df.rows[i]["content"]]),
                 WithColumn(df, "source_name", [i \in 1..len(df) |-> IF i = 1 THEN NaN ELSE Some("AI News")]),
                 WithIndex(df, [i \in 1..len(df) |-> i]),
                 WithIndex(df, [i \in 1..len(df) |-> 0]),
                 WithIndex(df, Reverse(df.index))}
           : df \in Seeds}

Frames == CleanFrames \cup OddFrames

\* the identifiers asked for: two a corpus may hold and one none holds
ArticleIds == {0, 1, 9999}

\* the texts asked for: one word, only a stop word, the text of an article
Queries == {<<"ml">>, <<"web">>, <<"the">>, <<"ml", "web">>}

\* the values of n_recommendations
Ns == 1..MaxN

----------------------------------------------------------------------------
(* The calls *)

NoCall ==
    [op |-> "none", article_id |-> 0, content |-> <<>>, n |-> 0, columns |-> {}, rows |-> 0,
     ids |-> <<>>,
     trainer |-> "", filename |-> "", raised |-> NoError, returned |-> <<>>,
     query |-> None, limit |-> 0, status |-> 0, called |-> <<>>, queries |-> <<>>,
     statistics |-> None]

\* no object has been made yet: no table, no recommender, no reference held
NoObjects ==
    [tables |-> <<>>, recommenders |-> <<>>,
     trainer |-> None, earlier |-> None, passed |-> None, fitted |-> None]

\* no DatabaseManager has been made yet
NoManager == [engine |-> None, SessionLocal |-> None, database |-> "absent", connected |-> FALSE]

Call(op, result) == [NoCall EXCEPT !.op = op, !.raised = result.raised, !.returned = result.returned]

Trainers == {"trainer", "trainer2"}
Filenames == {"recommender.pkl", "test_model.pkl"}

\* RecommenderTrainer.__init__
RecommenderTrainer == [recommender |-> None]

\* the threads that may call one recommender at the same time
Callers == {"caller1", "caller2"}

\* the local variables of a call of recommend or recommend_for_content, and where
\* the call stands; Idle is a caller that is in no call
Idle ==
    [pc |-> "idle", op |-> "none", article_id |-> 0, content |-> <<>>, n_recommendations |-> 0,
     article_idx |-> 0, content_vector |-> None, similarities |-> <<>>, indices |-> <<>>,
     raised |-> NoError, returned |-> <<>>]

\* the globals of src/src/api/main.py when the module is imported, where the
\* application stands (imported, serving, failed, stopped) and the warehouse
\* database it will find
MainModule ==
    [recommender |-> None, db_manager |-> None, warehouse_queries |-> None,
     lifespan |-> "imported", database |-> "no tables"]

Init ==
    /\ recommender = ContentBasedRecommender
    /\ trainers = [t \in Trainers |-> RecommenderTrainer]
    /\ files = [f \in Filenames |-> None]
    /\ argsortTies \in TiePolicies
    /\ calls = [c \in Callers |-> Idle]
    /\ app = MainModule
    /\ outcome = NoCall
    /\ objects = NoObjects
    /\ db = NoManager

\* recommender.fit(articles_df)
Fit ==
    \E articles_df \in Frames :
        \E r \in {fit(recommender, articles_df)} :
            /\ recommender' = r.self
            /\ outcome' = [NoCall EXCEPT !.op = "fit", !.columns = articles_df.columns,
                                         !.rows = len(articles_df), !.raised = r.raised]
            /\ UNCHANGED <<trainers, files, argsortTies, calls, app, objects, db>>

\* recommender.recommend(article_id, n)
Recommend ==
    \E article_id \in ArticleIds, n \in Ns :
        \E r \in {recommend(recommender, argsortTies, article_id, n)} :
            /\ outcome' = [Call("recommend", r) EXCEPT !.article_id = article_id, !.n = n]
            /\ UNCHANGED <<recommender, trainers, files, argsortTies, calls, app, objects, db>>

\* recommender.recommend_for_content(content, n)
RecommendForContent ==
    \E content \in Queries, n \in Ns :
        \E r \in {recommend_for_content(recommender, argsortTies, content, n)} :
            /\ outcome' = [Call("recommend_for_content", r) EXCEPT !.content = content, !.n = n]
            /\ UNCHANGED <<recommender, trainers, files, argsortTies, calls, app, objects, db>>

\* recommender.get_statistics()
GetStatistics ==
    /\ outcome' = [NoCall EXCEPT !.op = "get_statistics", !.statistics = get_statistics(recommender)]
    /\ UNCHANGED <<recommender, trainers, files, argsortTies, calls, app, objects, db>>

Next == Fit \/ Recommend \/ RecommendForContent \/ GetStatistics

Spec == Init /\ [][Next]_vars

\* the values of n_recommendations that ask for nothing: the methods take any int
NonPositiveNs == {0 - MaxN, -1, 0}

\* recommender.recommend(article_id, n) with n <= 0
RecommendNothing ==
    \E article_id \in ArticleIds, n \in NonPositiveNs :
        \E r \in {recommend(recommender, argsortTies, article_id, n)} :
            /\ outcome' = [Call("recommend", r) EXCEPT !.article_id = article_id, !.n = n]
            /\ UNCHANGED <<recommender, trainers, files, argsortTies, calls, app, objects, db>>

\* recommender.recommend_for_content(content, n) with n <= 0
RecommendNothingForContent ==
    \E content \in Queries, n \in NonPositiveNs :
        \E r \in {recommend_for_content(recommender, argsortTies, content, n)} :
            /\ outcome' = [Call("recommend_for_content", r) EXCEPT !.content = content, !.n = n]
            /\ UNCHANGED <<recommender, trainers, files, argsortTies, calls, app, objects, db>>

NonPositiveNext == Fit \/ RecommendNothing \/ RecommendNothingForContent

NonPositiveSpec == Init /\ [][NonPositiveNext]_vars

----------------------------------------------------------------------------
(* RecommenderTrainer *)

\* pickle.dump(obj, f): the attributes of the object, one after the other
pickle_dump(obj) ==
    <<[name |-> "vectorizer", value |-> obj.vectorizer],
      [name |-> "tfidf_matrix", value |-> obj.tfidf_matrix],
      [name |-> "articles_df", value |-> obj.articles_df],
      [name |-> "article_mapping", value |-> obj.article_mapping]>>

\* a load that rebuilds the object with the constructor's empty mapping
pickle_load_without_mapping(bytes) ==
    LET attr(name) == bytes[CHOOSE i \in 1..Len(bytes) : bytes[i].name = name].value
    IN  [vectorizer |-> attr("vectorizer"),
         tfidf_matrix |-> attr("tfidf_matrix"),
         articles_df |-> attr("articles_df"),
         article_mapping |-> <<>>]

\* pickle.load(f): an object with the attributes the bytes hold
pickle_load(bytes) ==
    LET attr(name) == bytes[CHOOSE i \in 1..Len(bytes) : bytes[i].name = name].value
    IN  [vectorizer |-> attr("vectorizer"),
         tfidf_matrix |-> attr("tfidf_matrix"),
         articles_df |-> attr("articles_df"),
         article_mapping |-> attr("article_mapping")]

\* identifiers given only to a table that has none
assign_ids_when_absent(df) ==
    IF "article_id" \in df.columns THEN df
    ELSE WithColumn(df, "article_id", [i \in 1..len(df) |-> Some(i - 1)])

\* df["article_id"] = range(len(df))
assign_ids(df) == WithColumn(df, "article_id", [i \in 1..len(df) |-> Some(i - 1)])

\* train_from_csv(csv_file), for what pd.read_csv finds: None when there is no
\* such file, else the table read.  The trainer is bound to the new recommender
\* before fit is called on it.
train_from_csv(self, csv) ==
    IF csv = None THEN [self |-> self, raised |-> "FileNotFoundError"]
    ELSE
    LET df == assign_ids(csv[1])
        r == fit(ContentBasedRecommender, df)
    IN  [self |-> [self EXCEPT !.recommender = Some(r.self)], raised |-> r.raised]

\* save_model(filename): the trainer is unchanged; the directory after the call
save_model(self, dir, filename) ==
    IF self.recommender = None THEN [dir |-> dir, raised |-> "ValueError"]
    ELSE [dir |-> [dir EXCEPT ![filename] = Some(pickle_dump(self.recommender[1]))],
          raised |-> NoError]

\* a load_model that drops the held model before it looks for the file
load_model_clearing(self, dir, filename) ==
    IF dir[filename] = None
    THEN [self |-> [self EXCEPT !.recommender = None], raised |-> "FileNotFoundError"]
    ELSE [self |-> [self EXCEPT !.recommender = Some(pickle_load(dir[filename][1]))],
          raised |-> NoError]

\* load_model(filename)
load_model(self, dir, filename) ==
    IF dir[filename] = None THEN [self |-> self, raised |-> "FileNotFoundError"]
    ELSE [self |-> [self EXCEPT !.recommender = Some(pickle_load(dir[filename][1]))],
          raised |-> NoError]

\* what pd.read_csv may find: no file, a header without rows, and tables of
\* articles with their own identifiers, without identifiers, or lacking a column
CsvArticles ==
    DataFrame(AllColumns, RangeIndex(3),
              <<Row(Some(5), NaN, Some(<<"ml">>), Some("Tech Blog")),
                Row(Some(5), Some(<<"ml">>), Some(<<"web">>), NaN),
                Row(Some(1), Some(<<"web">>), Some(<<"the">>), Some("AI News"))>>)

Csvs ==
    {None,
     Some(DataFrame(AllColumns, <<>>, <<>>)),
     Some(CsvArticles),
     Some(DropColumn(CsvArticles, "article_id")),
     Some(DropColumn(CsvArticles, "content")),
     Some(DropColumn(CsvArticles, "title"))}

\* the article_id column of a table, when it has one
IdsOf(df) ==
    IF "article_id" \in df.columns THEN [i \in 1..len(df) |-> df.rows[i]["article_id"]] ELSE <<>>

\* trainer.train_from_csv(csv_file)
TrainFromCsv ==
    \E t \in Trainers, csv \in Csvs :
        \E r \in {train_from_csv(trainers[t], csv)} :
            /\ trainers' = [trainers EXCEPT ![t] = r.self]
            /\ outcome' = [NoCall EXCEPT !.op = "train_from_csv", !.trainer = t,
                                         !.columns = IF csv = None THEN {} ELSE csv[1].columns,
                                         !.rows = IF csv = None THEN 0 ELSE len(csv[1]),
                                         !.ids = IF csv = None THEN <<>> ELSE IdsOf(csv[1]),
                                         !.raised = r.raised]
            /\ UNCHANGED <<recommender, files, argsortTies, calls, app, objects, db>>

\* trainer.save_model(filename)
SaveModel ==
    \E t \in Trainers, filename \in Filenames :
        \E r \in {save_model(trainers[t], files, filename)} :
            /\ files' = r.dir
            /\ outcome' = [NoCall EXCEPT !.op = "save_model", !.trainer = t,
                                         !.filename = filename, !.raised = r.raised]
            /\ UNCHANGED <<recommender, trainers, argsortTies, calls, app, objects, db>>

\* trainer.load_model(filename)
LoadModel ==
    \E t \in Trainers, filename \in Filenames :
        \E r \in {load_model(trainers[t], files, filename)} :
            /\ trainers' = [trainers EXCEPT ![t] = r.self]
            /\ outcome' = [NoCall EXCEPT !.op = "load_model", !.trainer = t,
                                         !.filename = filename, !.raised = r.raised]
            /\ UNCHANGED <<recommender, files, argsortTies, calls, app, objects, db>>

\* trainer.recommender.recommend(article_id, n), on the recommender a trainer holds
TrainerRecommend ==
    \E t \in Trainers, article_id \in ArticleIds, n \in Ns :
        /\ trainers[t].recommender # None
        /\ \E r \in {recommend(trainers[t].recommender[1], argsortTies, article_id, n)} :
              /\ outcome' = [Call("recommend", r)
                                EXCEPT !.trainer = t, !.article_id = article_id, !.n = n]
              /\ UNCHANGED <<recommender, trainers, files, argsortTies, calls, app, objects, db>>

TrainerNext == TrainFromCsv \/ SaveModel \/ LoadModel \/ TrainerRecommend

TrainerSpec == Init /\ [][TrainerNext]_vars

\* the runs of the trainers in which no train_from_csv and no load_model succeeds
FailedTrainFromCsv == TrainFromCsv /\ outcome'.raised # NoError
FailedLoadModel == LoadModel /\ outcome'.raised # NoError

UntrainedNext == FailedTrainFromCsv \/ FailedLoadModel \/ SaveModel

UntrainedSpec == Init /\ [][UntrainedNext]_vars

----------------------------------------------------------------------------
(* recommend and recommend_for_content, statement by statement: several callers *)
(* run them on one recommender, and between two statements of one call any       *)
(* statement of another may run.  A step takes the recommender and the call's     *)
(* local variables and gives both back.                                           *)

Raise(frame, error) == [frame EXCEPT !.pc = "done", !.raised = error]
Return(frame, list) == [frame EXCEPT !.pc = "done", !.returned = list]

\* if self.tfidf_matrix is None: raise ValueError
check_fitted(self, frame) ==
    [self |-> self,
     frame |-> IF self.tfidf_matrix = None THEN Raise(frame, "ValueError")
               ELSE [frame EXCEPT !.pc = IF frame.op = "recommend" THEN "find" ELSE "vectorize"]]

\* a lookup that takes the entries it finds out of the mapping
find_article_consuming(self, frame) ==
    [self |-> [self EXCEPT !.article_mapping =
                  SelectSeq(self.article_mapping, LAMBDA e : e.value # Some(frame.article_id))],
     frame |-> IF article_indices(self, frame.article_id) = <<>> THEN Return(frame, <<>>)
               ELSE [frame EXCEPT !.pc = "similarities",
                                  !.article_idx = article_indices(self, frame.article_id)[1]]]

\* article_indices = [...]; if not article_indices: return []; article_idx = article_indices[0]
find_article(self, frame) ==
    [self |-> self,
     frame |-> IF article_indices(self, frame.article_id) = <<>> THEN Return(frame, <<>>)
               ELSE [frame EXCEPT !.pc = "similarities",
                                  !.article_idx = article_indices(self, frame.article_id)[1]]]

\* a transform that drops from the vocabulary the features it has just weighed
vectorize_content_forgetting(self, frame) ==
    [self |-> [self EXCEPT !.vectorizer.vocabulary_ =
                  Some(self.vectorizer.vocabulary_[1] \ FeaturesOf(Analyze(frame.content)))],
     frame |-> [frame EXCEPT !.pc = "similarities",
                             !.content_vector = Some(transform(self.vectorizer, frame.content))]]

\* a transform that learns the words of the text: the vocabulary takes its
\* features and the matrix a column of zeros for each
vectorize_content_learning(self, frame) ==
    LET learnt == self.vectorizer.vocabulary_[1] \cup FeaturesOf(Analyze(frame.content))
        idf == [f \in learnt |-> IF f \in self.vectorizer.vocabulary_[1]
                                 THEN self.vectorizer.idf_[1][f] ELSE 10]
        grown == [vocabulary_ |-> Some(learnt), idf_ |-> Some(idf)]
        matrix == self.tfidf_matrix[1]
        wider == [i \in 1..Len(matrix) |->
                     [f \in learnt |-> IF f \in DOMAIN matrix[i] THEN matrix[i][f] ELSE 0]]
    IN  [self |-> [self EXCEPT !.vectorizer = grown, !.tfidf_matrix = Some(wider)],
         frame |-> [frame EXCEPT !.pc = "similarities",
                                 !.content_vector = Some(transform(grown, frame.content))]]

\* content_vector = self.vectorizer.transform([content])
vectorize_content(self, frame) ==
    [self |-> self,
     frame |-> [frame EXCEPT !.pc = "similarities",
                             !.content_vector = Some(transform(self.vectorizer, frame.content))]]

\* similarities = cosine_similarity(...)[0], then the ranking of the rows
compute_similarities(self, ties, frame) ==
    LET matrix == self.tfidf_matrix[1]
    IN  [self |-> self,
         frame |->
            IF frame.op = "recommend"
            THEN IF frame.article_idx >= Len(matrix) THEN Raise(frame, "IndexError")
                 ELSE LET similarities == cosine_similarity(matrix[frame.article_idx + 1], matrix)
                      IN  [frame EXCEPT !.pc = "collect", !.similarities = similarities,
                                        !.indices = similar_indices(similarities, ties,
                                                                    frame.n_recommendations)]
            ELSE LET similarities == cosine_similarity(frame.content_vector[1], matrix)
                 IN  [frame EXCEPT !.pc = "collect", !.similarities = similarities,
                                   !.indices = top_indices(similarities, ties,
                                                           frame.n_recommendations)]]

\* the loop that builds the list, and the return
collect(self, frame) ==
    LET kept == IF frame.op = "recommend" THEN frame.indices
                ELSE SelectSeq(frame.indices, LAMBDA idx : Positive(frame.similarities[idx + 1]))
        built == recommendations(self.articles_df[1], frame.similarities, kept)
    IN  [self |-> self,
         frame |-> IF built.raised # NoError THEN Raise(frame, built.raised)
                   ELSE Return(frame, built.returned)]

\* the corpora of the recommender the callers share: distinct identifiers, one
\* identifier for every row, and a corpus that knows one word only
ReaderFrames ==
    Seeds \cup {WithColumn(df, "article_id", [i \in 1..len(df) |-> Some(0)]) : df \in Seeds}
          \cup {DataFrame(AllColumns, RangeIndex(2), <<Article(1, <<"ml">>), Article(2, <<"ml">>)>>)}

\* the callers find a recommender that has been fitted once
ReadersInit ==
    /\ recommender \in {fit(ContentBasedRecommender, df).self : df \in ReaderFrames}
    /\ trainers = [t \in Trainers |-> RecommenderTrainer]
    /\ files = [f \in Filenames |-> None]
    /\ argsortTies \in TiePolicies
    /\ calls = [c \in Callers |-> Idle]
    /\ app = MainModule
    /\ outcome = NoCall
    /\ objects = NoObjects
    /\ db = NoManager

\* what a step leaves: the recommender and the caller's frame
Stepped(c, r) ==
    /\ recommender' = r.self
    /\ calls' = [calls EXCEPT ![c] = r.frame]
    /\ UNCHANGED <<trainers, files, argsortTies, app, outcome, objects, db>>

\* a caller enters recommend(article_id, n)
BeginRecommend ==
    \E c \in Callers, article_id \in ArticleIds, n \in Ns :
        /\ calls[c].pc = "idle"
        /\ Stepped(c, check_fitted(recommender,
                       [Idle EXCEPT !.op = "recommend", !.article_id = article_id,
                                    !.n_recommendations = n]))

\* a caller enters recommend_for_content(content, n)
BeginRecommendForContent ==
    \E c \in Callers, content \in Queries, n \in Ns :
        /\ calls[c].pc = "idle"
        /\ Stepped(c, check_fitted(recommender,
                       [Idle EXCEPT !.op = "recommend_for_content", !.content = content,
                                    !.n_recommendations = n]))

FindArticle ==
    \E c \in Callers :
        /\ calls[c].pc = "find"
        /\ Stepped(c, find_article(recommender, calls[c]))

VectorizeContent ==
    \E c \in Callers :
        /\ calls[c].pc = "vectorize"
        /\ Stepped(c, vectorize_content(recommender, calls[c]))

ComputeSimilarities ==
    \E c \in Callers :
        /\ calls[c].pc = "similarities"
        /\ Stepped(c, compute_similarities(recommender, argsortTies, calls[c]))

Collect ==
    \E c \in Callers :
        /\ calls[c].pc = "collect"
        /\ Stepped(c, collect(recommender, calls[c]))

\* the caller has the result and is free for its next call
Leave ==
    \E c \in Callers :
        /\ calls[c].pc = "done"
        /\ calls' = [calls EXCEPT ![c] = Idle]
        /\ UNCHANGED <<recommender, trainers, files, argsortTies, app, outcome, objects, db>>

ReadersNext ==
    \/ BeginRecommend \/ BeginRecommendForContent
    \/ FindArticle \/ VectorizeContent \/ ComputeSimilarities \/ Collect
    \/ Leave

ReadersSpec == ReadersInit /\ [][ReadersNext]_vars

----------------------------------------------------------------------------
(* The serving process, src/src/api/main.py *)

\* Query(5, ge=1, le=20)
n_ge == 1
n_le == 20
\* Query(..., min_length=10)
query_min_length == 10
\* Query(10, ge=1, le=50)
limit_ge == 1
limit_le == 50

\* the number of characters of a word, and of a text (its words and the spaces
\* between them)
WordLength(w) == CASE w = "ml" -> 2 [] w = "web" -> 3 [] w = "the" -> 3

RECURSIVE CharLength(_)
CharLength(text) ==
    IF text = <<>> THEN 0
    ELSE IF Len(text) = 1 THEN WordLength(text[1])
    ELSE WordLength(text[1]) + 1 + CharLength(Tail(text))

\* what FastAPI checks before it calls the handler
valid_n(n) == n >= n_ge /\ n <= n_le
valid_query(query) == query # None /\ CharLength(query[1]) >= query_min_length
valid_limit(limit) == limit >= limit_ge /\ limit <= limit_le

\* a response: the status, the recommender methods and the warehouse queries the
\* request has run, and the recommendations of a 200
Response(status, called, queries, returned) ==
    [status |-> status, called |-> called, queries |-> queries, returned |-> returned]

\* RecommendationResult(**rec): title and source are str, similarity_score is a
\* float with ge=0 and le=1
RecommendationResult(rec) ==
    /\ rec.title # NaN
    /\ rec.source # NaN
    /\ rec.similarity_score.num >= 0
    /\ \/ rec.similarity_score.num < rec.similarity_score.den
       \/ rec.similarity_score.num = rec.similarity_score.den /\ rec.similarity_score.ulps <= 0

\* the try block of the two recommendation endpoints, for what the recommender
\* answered: an exception, the HTTPException(404) for an empty list included, is
\* caught by "except Exception" and turned into a 500
recommendations_response(method, r) ==
    IF r.raised # NoError THEN Response(500, <<method>>, <<>>, <<>>)
    ELSE IF r.returned = <<>> THEN Response(500, <<method>>, <<>>, <<>>)
    ELSE IF \E k \in 1..Len(r.returned) : ~RecommendationResult(r.returned[k])
         THEN Response(500, <<method>>, <<>>, <<>>)
    ELSE Response(200, <<method>>, <<>>, r.returned)

\* a handler that looks for the model before its parameters are checked
get_recommendations_unavailable_first(globals, ties, article_id, n) ==
    IF globals.recommender = None THEN Response(503, <<>>, <<>>, <<>>)
    ELSE IF ~valid_n(n) THEN Response(422, <<>>, <<>>, <<>>)
    ELSE recommendations_response("recommend",
                                  recommend(globals.recommender[1], ties, article_id, n))

\* GET /recommendations/{article_id}?n=
get_recommendations(globals, ties, article_id, n) ==
    IF ~valid_n(n) THEN Response(422, <<>>, <<>>, <<>>)
    ELSE IF globals.recommender = None THEN Response(503, <<>>, <<>>, <<>>)
    ELSE recommendations_response("recommend",
                                  recommend(globals.recommender[1], ties, article_id, n))

\* POST /recommendations/search?query=&n=
search_recommendations(globals, ties, query, n) ==
    IF ~valid_query(query) \/ ~valid_n(n) THEN Response(422, <<>>, <<>>, <<>>)
    ELSE IF globals.recommender = None THEN Response(503, <<>>, <<>>, <<>>)
    ELSE recommendations_response("recommend_for_content",
                                  recommend_for_content(globals.recommender[1], ties, query[1], n))

\* the try block of an analytics endpoint: execute_query raises when the tables
\* are not there; the summary of an empty fact table holds NULL averages, which
\* WarehouseStats (int fields) rejects
warehouse_response(globals, query) ==
    IF globals.database = "no tables" THEN Response(500, <<>>, <<query>>, <<>>)
    ELSE IF query = "get_warehouse_summary" /\ globals.database = "empty"
         THEN Response(500, <<>>, <<query>>, <<>>)
    ELSE Response(200, <<>>, <<query>>, <<>>)

\* GET /analytics/warehouse-stats
get_warehouse_stats(globals) ==
    IF globals.warehouse_queries = None THEN Response(503, <<>>, <<>>, <<>>)
    ELSE warehouse_response(globals, "get_warehouse_summary")

\* an endpoint that queries without looking for the connection
get_articles_by_source_unchecked(globals) ==
    warehouse_response(globals, "get_articles_by_source")

\* GET /analytics/articles-by-source
get_articles_by_source(globals) ==
    IF globals.warehouse_queries = None THEN Response(503, <<>>, <<>>, <<>>)
    ELSE warehouse_response(globals, "get_articles_by_source")

\* GET /analytics/articles-by-author?limit=
get_articles_by_author(globals, limit) ==
    IF ~valid_limit(limit) THEN Response(422, <<>>, <<>>, <<>>)
    ELSE IF globals.warehouse_queries = None THEN Response(503, <<>>, <<>>, <<>>)
    ELSE warehouse_response(globals, "get_articles_by_author")

\* GET /analytics/content-distribution
get_content_distribution(globals) ==
    IF globals.warehouse_queries = None THEN Response(503, <<>>, <<>>, <<>>)
    ELSE warehouse_response(globals, "get_content_length_distribution")

\* how DatabaseManager.connect may end: connected, the data directory cannot be
\* made (before the engine is created), the test query fails (after)
ConnectOutcomes == {"connected", "no directory", "no connection"}

\* startup_event: the model is loaded, then the warehouse is connected; what
\* raises is raised again, with the globals assigned so far
startup_event(globals, dir, connect) ==
    LET loaded == load_model(RecommenderTrainer, dir, "recommender.pkl")
        manager == [engine |-> IF connect = "no directory" THEN None ELSE Some("sqlite")]
    IN  IF loaded.raised # NoError
        THEN [globals |-> [globals EXCEPT !.lifespan = "failed"], raised |-> loaded.raised]
        ELSE IF connect # "connected"
        THEN [globals |-> [globals EXCEPT !.recommender = loaded.self.recommender,
                                          !.db_manager = Some(manager),
                                          !.lifespan = "failed"],
              raised |-> "OperationalError"]
        ELSE [globals |-> [globals EXCEPT !.recommender = loaded.self.recommender,
                                          !.db_manager = Some(manager),
                                          !.warehouse_queries = Some([db |-> manager]),
                                          !.lifespan = "serving"],
              raised |-> NoError]

\* shutdown_event: db_manager.disconnect() disposes of the engine's connections
shutdown_event(globals) == [globals EXCEPT !.lifespan = "stopped"]

\* the model files a serving process may find: none, or what save_model wrote
\* after a train_from_csv of the trainer, whether that call returned or raised
SavedModels ==
    {pickle_dump(train_from_csv(RecommenderTrainer, csv).self.recommender[1]) :
        csv \in Csvs \ {None}}

\* the warehouse database: the tables were never created, are empty, hold articles
Databases == {"no tables", "empty", "loaded"}

ApiInit ==
    /\ recommender = ContentBasedRecommender
    /\ trainers = [t \in Trainers |-> RecommenderTrainer]
    /\ \E saved \in {None} \cup {Some(bytes) : bytes \in SavedModels} :
          files = [f \in Filenames |-> IF f = "recommender.pkl" THEN saved ELSE None]
    /\ argsortTies \in TiePolicies
    /\ calls = [c \in Callers |-> Idle]
    /\ \E database \in Databases : app = [MainModule EXCEPT !.database = database]
    /\ outcome = NoCall
    /\ objects = NoObjects
    /\ db = NoManager

\* the values of n, of query and of limit that requests carry
ApiNs == {0, 1, 20, 21}
ApiQueries ==
    {None, Some(<<"ml", "web">>), Some(<<"ml", "web", "the">>), Some(<<"web", "the", "the">>),
     Some(<<"the", "the", "the">>)}
ApiLimits == {0, 1, 50, 51}

\* requests are served once the startup has succeeded, and by a test client that
\* runs no startup (tests/unit/test_api.py)
Serving == app.lifespan \in {"imported", "serving"}

Answered(op, response) ==
    [NoCall EXCEPT !.op = op, !.status = response.status, !.called = response.called,
                   !.queries = response.queries, !.returned = response.returned]

Startup ==
    /\ app.lifespan = "imported"
    /\ \E connect \in ConnectOutcomes :
          \E r \in {startup_event(app, files, connect)} :
              /\ app' = r.globals
              /\ outcome' = [NoCall EXCEPT !.op = "startup_event", !.raised = r.raised]
    /\ UNCHANGED <<recommender, trainers, files, argsortTies, calls, objects, db>>

Shutdown ==
    /\ app.lifespan = "serving"
    /\ app' = shutdown_event(app)
    /\ outcome' = [NoCall EXCEPT !.op = "shutdown_event"]
    /\ UNCHANGED <<recommender, trainers, files, argsortTies, calls, objects, db>>

GetRecommendations ==
    /\ Serving
    /\ \E article_id \in ArticleIds, n \in ApiNs :
          outcome' = [Answered("get_recommendations",
                               get_recommendations(app, argsortTies, article_id, n))
                         EXCEPT !.article_id = article_id, !.n = n]
    /\ UNCHANGED <<recommender, trainers, files, argsortTies, calls, app, objects, db>>

SearchRecommendations ==
    /\ Serving
    /\ \E query \in ApiQueries, n \in ApiNs :
          outcome' = [Answered("search_recommendations",
                               search_recommendations(app, argsortTies, query, n))
                         EXCEPT !.query = query, !.n = n]
    /\ UNCHANGED <<recommender, trainers, files, argsortTies, calls, app, objects, db>>

GetWarehouseStats ==
    /\ Serving
    /\ outcome' = Answered("get_warehouse_stats", get_warehouse_stats(app))
    /\ UNCHANGED <<recommender, trainers, files, argsortTies, calls, app, objects, db>>

GetArticlesBySource ==
    /\ Serving
    /\ outcome' = Answered("get_articles_by_source", get_articles_by_source(app))
    /\ UNCHANGED <<recommender, trainers, files, argsortTies, calls, app, objects, db>>

GetArticlesByAuthor ==
    /\ Serving
    /\ \E limit \in ApiLimits :
          outcome' = [Answered("get_articles_by_author", get_articles_by_author(app, limit))
                         EXCEPT !.limit = limit]
    /\ UNCHANGED <<recommender, trainers, files, argsortTies, calls, app, objects, db>>

GetContentDistribution ==
    /\ Serving
    /\ outcome' = Answered("get_content_distribution", get_content_distribution(app))
    /\ UNCHANGED <<recommender, trainers, files, argsortTies, calls, app, objects, db>>

ApiNext ==
    \/ Startup \/ Shutdown
    \/ GetRecommendations \/ SearchRecommendations
    \/ GetWarehouseStats \/ GetArticlesBySource \/ GetArticlesByAuthor \/ GetContentDistribution

ApiSpec == ApiInit /\ [][ApiNext]_vars

----------------------------------------------------------------------------
(* Objects and references.  Python variables and attributes hold references:  *)
(* a table or a recommender is an object at an address, and two holders of    *)
(* one address see each other's changes.  A recommender object is its fields  *)
(* and the address of the table its articles_df attribute refers to.          *)

\* the largest number of recommender objects and of table objects a run makes
MaxRecommenders == 3
MaxTables == 6

\* a new table object: pd.read_csv(...), pd.DataFrame(...)
allocate(tables, df) == [tables |-> Append(tables, df), at |-> Len(tables) + 1]

\* an assignment that keeps the reference to the caller's table
copy_as_view(tables, at) == [tables |-> tables, at |-> at]

\* articles_df.copy(): a new table object with the same cells
copy(tables, at) == allocate(tables, tables[at])

\* the recommender at an address, as its readers see it: its corpus is whatever
\* the table its articles_df refers to holds now
Deref(heap, at) ==
    LET object == heap.recommenders[at]
    IN  IF object.articles_df = None THEN object.self
        ELSE [object.self EXCEPT !.articles_df = Some(heap.tables[object.articles_df[1]])]

\* ContentBasedRecommender(): a new recommender object
new_recommender(heap) ==
    [heap |-> [heap EXCEPT !.recommenders =
                  Append(@, [self |-> ContentBasedRecommender, articles_df |-> None])],
     at |-> Len(heap.recommenders) + 1]

\* recommender.fit(articles_df) on the objects at two addresses: the fields are
\* assigned in place, and self.articles_df refers to the copy made at line 51
\* when the call gets past its two checks
fit_object(heap, at, table) ==
    LET articles_df == heap.tables[table]
        r == fit(Deref(heap, at), articles_df)
    IN  IF empty(articles_df) \/ "content" \notin articles_df.columns
        THEN [heap |-> heap, raised |-> r.raised]
        ELSE LET stored == copy(heap.tables, table)
             IN  [heap |-> [heap EXCEPT !.tables = stored.tables,
                                        !.recommenders[at] =
                                            [self |-> r.self, articles_df |-> Some(stored.at)]],
                  raised |-> r.raised]

\* train_from_csv on objects: the table read is a new object, the identifiers are
\* assigned to it in place, the trainer is bound to a new recommender object and
\* fit is called on that object
train_from_csv_object(heap, csv) ==
    IF csv = None THEN [heap |-> heap, raised |-> "FileNotFoundError"]
    ELSE
    LET df == allocate(heap.tables, assign_ids(csv[1]))
        made == new_recommender([heap EXCEPT !.tables = df.tables])
        fitted == fit_object([made.heap EXCEPT !.trainer = Some(made.at)], made.at, df.at)
    IN  fitted

\* load_model on objects: pickle.load builds a new recommender object and a new
\* table object for its corpus, and the trainer is bound to it
load_model_object(heap, dir, filename) ==
    IF dir[filename] = None THEN [heap |-> heap, raised |-> "FileNotFoundError"]
    ELSE
    LET loaded == pickle_load(dir[filename][1])
        made == new_recommender(heap)
    IN  IF loaded.articles_df = None
        THEN [heap |-> [made.heap EXCEPT !.recommenders[made.at].self = loaded,
                                         !.trainer = Some(made.at)],
              raised |-> NoError]
        ELSE LET df == allocate(made.heap.tables, loaded.articles_df[1])
             IN  [heap |-> [made.heap EXCEPT !.tables = df.tables,
                                             !.recommenders[made.at] =
                                                 [self |-> loaded, articles_df |-> Some(df.at)],
                                             !.trainer = Some(made.at)],
                  raised |-> NoError]

\* the tables a caller builds, and what it may write into a table it holds
CallerFrames ==
    Seeds \cup {DataFrame(AllColumns, RangeIndex(2), <<Article(1, <<"ml">>), Article(2, <<"ml">>)>>)}

\* the files train_from_csv is pointed at
ObjectCsvs == {None, Some(CsvArticles), Some(DataFrame(AllColumns, <<>>, <<>>))}

\* there is room for the objects one more call makes
Room(recommenders, tables) ==
    /\ Len(objects.recommenders) + recommenders <= MaxRecommenders
    /\ Len(objects.tables) + tables <= MaxTables

\* a caller builds a table and a recommender of its own and fits the one on the
\* other; it keeps both
CallerFit ==
    /\ objects.fitted = None
    /\ Room(1, 2)
    /\ \E articles_df \in CallerFrames :
          \E r \in {LET df == allocate(objects.tables, articles_df)
                        made == new_recommender([objects EXCEPT !.tables = df.tables])
                    IN  fit_object([made.heap EXCEPT !.passed = Some(df.at),
                                                     !.fitted = Some(made.at)],
                                   made.at, df.at)} :
              /\ objects' = r.heap
              /\ outcome' = [NoCall EXCEPT !.op = "fit", !.columns = articles_df.columns,
                                           !.rows = len(articles_df), !.raised = r.raised]
    /\ UNCHANGED <<recommender, trainers, files, argsortTies, calls, app, db>>

\* the caller writes into the table it passed to fit: df.loc[...] = ...,
\* df.drop(..., inplace=True)
CallerChangesTable ==
    /\ objects.passed # None
    /\ \E articles_df \in CallerFrames :
          /\ articles_df # objects.tables[objects.passed[1]]
          /\ objects' = [objects EXCEPT !.tables[objects.passed[1]] = articles_df]
          /\ outcome' = [NoCall EXCEPT !.op = "table changed", !.columns = articles_df.columns,
                                       !.rows = len(articles_df)]
    /\ UNCHANGED <<recommender, trainers, files, argsortTies, calls, app, db>>

\* trainer.train_from_csv(csv_file); a reader may keep the object it returns
ObjectTrainFromCsv ==
    /\ Room(1, 2)
    /\ \E csv \in ObjectCsvs, keeps \in BOOLEAN :
          \E r \in {train_from_csv_object(objects, csv)} :
              /\ objects' = IF keeps /\ r.raised = NoError
                            THEN [r.heap EXCEPT !.earlier = r.heap.trainer] ELSE r.heap
              /\ outcome' = [NoCall EXCEPT !.op = "train_from_csv", !.trainer = "trainer",
                                           !.rows = IF csv = None THEN 0 ELSE len(csv[1]),
                                           !.raised = r.raised]
    /\ UNCHANGED <<recommender, trainers, files, argsortTies, calls, app, db>>

\* trainer.save_model(filename), for the object the trainer is bound to
ObjectSaveModel ==
    /\ \E filename \in {"recommender.pkl"} :
          \E r \in {save_model([recommender |-> IF objects.trainer = None THEN None
                                                ELSE Some(Deref(objects, objects.trainer[1]))],
                               files, filename)} :
              /\ files' = r.dir
              /\ outcome' = [NoCall EXCEPT !.op = "save_model", !.trainer = "trainer",
                                           !.filename = filename, !.raised = r.raised]
    /\ UNCHANGED <<recommender, trainers, argsortTies, calls, app, objects, db>>

\* trainer.load_model(filename); a reader may keep the object it returns
ObjectLoadModel ==
    /\ Room(1, 1)
    /\ \E filename \in {"recommender.pkl"}, keeps \in BOOLEAN :
          \E r \in {load_model_object(objects, files, filename)} :
              /\ objects' = IF keeps /\ r.raised = NoError
                            THEN [r.heap EXCEPT !.earlier = r.heap.trainer] ELSE r.heap
              /\ outcome' = [NoCall EXCEPT !.op = "load_model", !.trainer = "trainer",
                                           !.filename = filename, !.raised = r.raised]
    /\ UNCHANGED <<recommender, trainers, files, argsortTies, calls, app, db>>

\* the reader asks the object it kept
ReaderRecommend ==
    /\ objects.earlier # None
    /\ \E article_id \in {1}, n \in {MaxN} :
          \E r \in {recommend(Deref(objects, objects.earlier[1]), argsortTies, article_id, n)} :
              outcome' = [Call("recommend", r) EXCEPT !.article_id = article_id, !.n = n]
    /\ UNCHANGED <<recommender, trainers, files, argsortTies, calls, app, objects, db>>

ObjectsNext ==
    \/ CallerFit \/ CallerChangesTable
    \/ ObjectTrainFromCsv \/ ObjectSaveModel \/ ObjectLoadModel
    \/ ReaderRecommend

ObjectsSpec == Init /\ [][ObjectsNext]_vars

----------------------------------------------------------------------------
(* src/src/warehouse/connection.py: a DatabaseManager used directly.  The     *)
(* engine is created lazily: create_engine opens nothing, engine.connect()    *)
(* opens the SQLite file.  A call reports the engine methods it has called    *)
(* (called) and the statements the database has run for it (queries).         *)

\* DatabaseManager.__init__
DatabaseManager == [engine |-> None, SessionLocal |-> None]

\* what is at database_path: a path whose directory cannot be made, a path SQLite
\* cannot open (a directory, a file without permission), no file yet, a
\* database without tables, with empty tables, with articles
DatabaseFiles == {"unreachable", "unopenable", "absent", "no tables", "empty", "loaded"}

Result(self, database, raised, returned, called, queries) ==
    [self |-> self, database |-> database, raised |-> raised, returned |-> returned,
     called |-> called, queries |-> queries]

\* with self.engine.connect() as conn: SQLite opens the file, making it when absent
Opens(database) == database \notin {"unreachable", "unopenable"}
Opened(database) == IF database = "absent" THEN "no tables" ELSE database

\* connect(): mkdir may raise before anything is assigned; the engine and the
\* session factory are assigned before the test query, which may raise
connect(self, database) ==
    IF database = "unreachable" THEN Result(self, database, "OSError", None, <<>>, <<>>)
    ELSE
    LET assigned == [engine |-> Some("Engine"), SessionLocal |-> Some("sessionmaker")]
    IN  IF ~Opens(database)
        THEN Result(assigned, database, "OperationalError", None, <<"connect">>, <<>>)
        ELSE Result(assigned, Opened(database), NoError, Some("Engine"),
                    <<"connect">>, <<"SELECT 1">>)

\* disconnect(): the engine is disposed of and stays assigned
disconnect(self, database) ==
    IF self.engine # None THEN Result(self, database, NoError, None, <<"dispose">>, <<>>)
    ELSE Result(self, database, NoError, None, <<>>, <<>>)

\* create_schema(schema_file): the commands of the file make the tables
create_schema(self, database, schema_exists) ==
    IF self.engine = None THEN Result(self, database, "RuntimeError", None, <<>>, <<>>)
    ELSE IF ~schema_exists THEN Result(self, database, "FileNotFoundError", None, <<>>, <<>>)
    ELSE IF ~Opens(database)
         THEN Result(self, database, "OperationalError", None, <<"connect">>, <<>>)
    ELSE Result(self, IF Opened(database) = "no tables" THEN "empty" ELSE database,
                NoError, None, <<"connect">>, <<"CREATE TABLE">>)

\* get_session(): a Session opens no connection until it is used
get_session(self, database) ==
    IF self.SessionLocal = None THEN Result(self, database, "RuntimeError", None, <<>>, <<>>)
    ELSE Result(self, database, NoError, Some("Session"), <<>>, <<>>)

\* execute_query(query), for a SELECT on the articles: the rows, here their number
execute_query(self, database, query) ==
    IF self.engine = None THEN Result(self, database, "RuntimeError", None, <<>>, <<>>)
    ELSE IF ~Opens(database)
         THEN Result(self, database, "OperationalError", None, <<"connect">>, <<>>)
    ELSE IF Opened(database) = "no tables"
         THEN Result(self, Opened(database), "OperationalError", None, <<"connect">>, <<query>>)
    ELSE Result(self, database, NoError, Some(IF database = "loaded" THEN 1 ELSE 0), <<"connect">>, <<query>>)

\* execute_insert(query, params), for an INSERT of an article
execute_insert(self, database, query) ==
    IF self.engine = None THEN Result(self, database, "RuntimeError", None, <<>>, <<>>)
    ELSE IF ~Opens(database)
         THEN Result(self, database, "OperationalError", None, <<"connect">>, <<>>)
    ELSE IF Opened(database) = "no tables"
         THEN Result(self, Opened(database), "OperationalError", None, <<"connect">>, <<query>>)
    ELSE Result(self, "loaded", NoError, None, <<"connect">>, <<query>>)

\* table_exists(table_name): every exception is turned into False
table_exists(self, database) ==
    IF self.engine = None THEN Result(self, database, NoError, Some(FALSE), <<>>, <<>>)
    ELSE IF ~Opens(database)
         THEN Result(self, database, NoError, Some(FALSE), <<"connect">>, <<>>)
    ELSE Result(self, Opened(database), NoError,
                Some(Opened(database) # "no tables"), <<"connect">>, <<"SELECT EXISTS">>)

\* get_table_count(table_name): execute_query inside a try whose handler returns 0
get_table_count(self, database) ==
    LET r == execute_query(self, database, "SELECT COUNT")
    IN  IF r.raised # NoError
        THEN Result(self, r.database, NoError, Some(0), r.called, r.queries)
        ELSE r

\* a manager made by its constructor, for any state of the path
ManagerInit ==
    /\ recommender = ContentBasedRecommender
    /\ trainers = [t \in Trainers |-> RecommenderTrainer]
    /\ files = [f \in Filenames |-> None]
    /\ argsortTies \in TiePolicies
    /\ calls = [c \in Callers |-> Idle]
    /\ app = MainModule
    /\ outcome = NoCall
    /\ objects = NoObjects
    /\ \E database \in DatabaseFiles :
          db = [NoManager EXCEPT !.database = database]

\* what a call of the manager leaves: the manager, the database, and the outcome;
\* connected records that a connect has returned
Managed(op, r) ==
    /\ db' = [engine |-> r.self.engine, SessionLocal |-> r.self.SessionLocal,
              database |-> r.database,
              connected |-> db.connected \/ (op = "connect" /\ r.raised = NoError)]
    /\ outcome' = [NoCall EXCEPT !.op = op, !.raised = r.raised, !.returned = r.returned,
                                 !.called = r.called, !.queries = r.queries]
    /\ UNCHANGED <<recommender, trainers, files, argsortTies, calls, app, objects>>

Manager == [engine |-> db.engine, SessionLocal |-> db.SessionLocal]

Connect ==
    \E r \in {connect(Manager, db.database)} : Managed("connect", r)

Disconnect ==
    \E r \in {disconnect(Manager, db.database)} : Managed("disconnect", r)

CreateSchema ==
    \E schema_exists \in BOOLEAN :
        \E r \in {create_schema(Manager, db.database, schema_exists)} : Managed("create_schema", r)

GetSession ==
    \E r \in {get_session(Manager, db.database)} : Managed("get_session", r)

ExecuteQuery ==
    \E r \in {execute_query(Manager, db.database, "SELECT")} : Managed("execute_query", r)

ExecuteInsert ==
    \E r \in {execute_insert(Manager, db.database, "INSERT")} : Managed("execute_insert", r)

TableExists ==
    \E r \in {table_exists(Manager, db.database)} : Managed("table_exists", r)

GetTableCount ==
    \E r \in {get_table_count(Manager, db.database)} : Managed("get_table_count", r)

ManagerNext ==
    \/ Connect \/ Disconnect \/ CreateSchema \/ GetSession
    \/ ExecuteQuery \/ ExecuteInsert \/ TableExists \/ GetTableCount

ManagerSpec == ManagerInit /\ [][ManagerNext]_vars

----------------------------------------------------------------------------
(* What the claims speak of *)

\* a fitted model: corpus, mapping, matrix and vocabulary are those one successful
\* fit of the corpus leaves
FittedModel(self) ==
    /\ self.articles_df # None
    /\ fit(ContentBasedRecommender, self.articles_df[1]) = [self |-> self, raised |-> NoError]

\* the number of corpus rows
NumRows(self) == len(self.articles_df[1])

\* some corpus row carries the identifier
InCorpus(self, article_id) ==
    \E i \in 1..NumRows(self) : self.articles_df[1].rows[i]["article_id"] = Some(article_id)

Returned(op) == outcome.op = op /\ outcome.raised = NoError

\* two models answer every recommend call alike
SameRecommendations(a, b) ==
    \A article_id \in ArticleIds, n \in Ns :
        recommend(a, argsortTies, article_id, n) = recommend(b, argsortTies, article_id, n)

\* the row position of the first corpus row that carries the identifier
FirstPosition(self, article_id) ==
    CHOOSE p \in 0..(NumRows(self) - 1) :
        /\ self.articles_df[1].rows[p + 1]["article_id"] = article_id
        /\ \A q \in 0..(p - 1) : self.articles_df[1].rows[q + 1]["article_id"] # article_id

\* no two corpus rows carry the same identifier
UniqueIds(self) ==
    \A p, q \in 1..NumRows(self) :
        self.articles_df[1].rows[p]["article_id"] = self.articles_df[1].rows[q]["article_id"] => p = q


\* what a call answers when it runs alone on the recommender
Alone(self, frame) ==
    IF frame.op = "recommend"
    THEN recommend(self, argsortTies, frame.article_id, frame.n_recommendations)
    ELSE recommend_for_content(self, argsortTies, frame.content, frame.n_recommendations)

\* what a finished call has answered
Answer(frame) == [raised |-> frame.raised, returned |-> frame.returned]


\* the serving process holds a fitted model
HoldsFittedModel(globals) ==
    globals.recommender # None /\ globals.recommender[1].tfidf_matrix # None

RecommendationEndpoints == {"get_recommendations", "search_recommendations"}
AnalyticsEndpoints ==
    {"get_warehouse_stats", "get_articles_by_source", "get_articles_by_author",
     "get_content_distribution"}

\* the last request carried a parameter outside its declared bounds
InvalidRequest ==
    \/ outcome.op \in RecommendationEndpoints /\ ~valid_n(outcome.n)
    \/ outcome.op = "search_recommendations" /\ ~valid_query(outcome.query)
    \/ outcome.op = "get_articles_by_author" /\ ~valid_limit(outcome.limit)


----------------------------------------------------------------------------
(* The claims *)

\* C1 (as claimed): on a fitted model, no item returned by recommend(article_id, n)
\* carries the article_id asked for.
C1_NeverReturnsQueriedId ==
    (Returned("recommend") /\ FittedModel(recommender)) =>
        \A k \in 1..Len(outcome.returned) :
            outcome.returned[k].article_id # Some(outcome.article_id)

\* C2: every item returned by recommend_for_content has a similarity above 0.
C2_ContentScoresPositive ==
    Returned("recommend_for_content") =>
        \A k \in 1..Len(outcome.returned) : Positive(outcome.returned[k].similarity_score)

\* C2, its case: recommend_for_content returned items and left out a row it had
\* chosen, because the row's similarity was 0
C2_FilterActed ==
    /\ Returned("recommend_for_content")
    /\ FittedModel(recommender)
    /\ outcome.returned # <<>>
    /\ Len(outcome.returned) < Min(outcome.n, NumRows(recommender))

\* C2, the other half: recommend has returned an item whose similarity is 0
C2_RecommendKeepsZero ==
    /\ Returned("recommend")
    /\ FittedModel(recommender)
    /\ \E k \in 1..Len(outcome.returned) : ~Positive(outcome.returned[k].similarity_score)

\* C3: on a fitted model with N rows, recommend returns at most min(n, N - 1) items
\* and recommend_for_content at most min(n, N).
C3_AtMostN ==
    FittedModel(recommender) =>
        /\ Returned("recommend") =>
              Len(outcome.returned) <= Min(outcome.n, NumRows(recommender) - 1)
        /\ Returned("recommend_for_content") =>
              Len(outcome.returned) <= Min(outcome.n, NumRows(recommender))

\* C3, its case: recommend was asked for more than the corpus has beside the
\* queried row, and returned them all
C3_CorpusExhausted ==
    /\ Returned("recommend")
    /\ FittedModel(recommender)
    /\ outcome.n > NumRows(recommender) - 1
    /\ Len(outcome.returned) = NumRows(recommender) - 1
    /\ outcome.returned # <<>>

\* C4: on a fitted model, recommend with an identifier no corpus row carries
\* returns the empty list, raises nothing and leaves the recommender as it was.
C4_UnknownIdGivesEmpty ==
    [][(outcome'.op = "recommend" /\ FittedModel(recommender)
            /\ ~InCorpus(recommender, outcome'.article_id))
        => (outcome'.raised = NoError /\ outcome'.returned = <<>> /\ recommender' = recommender)]_vars

\* C4, its case: such a call has returned, on a model that answers other calls
C4_UnknownIdAsked ==
    /\ Returned("recommend")
    /\ FittedModel(recommender)
    /\ ~InCorpus(recommender, outcome.article_id)
    /\ outcome.returned = <<>>
    /\ \E article_id \in ArticleIds :
          recommend(recommender, argsortTies, article_id, 1).returned # <<>>

C6_UnfittedRaises ==
    (outcome.op \in {"recommend", "recommend_for_content"} /\ recommender.tfidf_matrix = None)
        => (outcome.raised = "ValueError" /\ outcome.returned = <<>>)

\* C6, its case: a call on a recommender whose only fit raised after storing the corpus
C6_AskedUnfitted ==
    /\ outcome.op \in {"recommend", "recommend_for_content"}
    /\ recommender.tfidf_matrix = None
    /\ recommender.articles_df # None
    /\ outcome.raised = "ValueError"

\* C7: fit raises on a table with no rows and on a table with no "content" column,
\* and the recommender is then exactly what it was.
C7_FitRejectsAndKeeps ==
    [][(outcome'.op = "fit" /\ (outcome'.rows = 0 \/ "content" \notin outcome'.columns))
        => (outcome'.raised = "ValueError" /\ recommender' = recommender)]_vars

\* C7, its case: fit has rejected a table on a recommender that holds a model
C7_FitRejected ==
    /\ outcome.op = "fit"
    /\ outcome.rows = 0 \/ "content" \notin outcome.columns
    /\ outcome.raised = "ValueError"
    /\ FittedModel(recommender)

\* C8 (as claimed): in the runs where no train_from_csv and no load_model
\* succeeds, every save_model raises and no model file is written.
C8_SaveWithoutModelRaises ==
    /\ outcome.op = "save_model" => outcome.raised = "ValueError"
    /\ \A f \in Filenames : files[f] = None

\* C9: load_model of a file that is not there raises FileNotFoundError and leaves
\* the trainers as they were.
C9_LoadMissingRaises ==
    [][(outcome'.op = "load_model" /\ files[outcome'.filename] = None)
        => (outcome'.raised = "FileNotFoundError" /\ trainers' = trainers)]_vars

\* C9, its case: the call has raised in a trainer that holds a fitted model, while
\* another file is there
C9_LoadMissed ==
    /\ outcome.op = "load_model"
    /\ outcome.raised = "FileNotFoundError"
    /\ trainers[outcome.trainer].recommender # None
    /\ FittedModel(trainers[outcome.trainer].recommender[1])
    /\ \E f \in Filenames : files[f] # None

C11_FitAllOrNothing ==
    [][(outcome'.op = "fit")
        => IF outcome'.raised = NoError
           THEN FittedModel(recommender')
           ELSE recommender' = recommender]_vars

\* C12 (as claimed): in the list recommend_for_content returns, of two neighbours
\* with the same similarity the one from the lower row position comes first.
C12_TiesInRowOrder ==
    (Returned("recommend_for_content") /\ FittedModel(recommender) /\ UniqueIds(recommender)) =>
        \A k \in 1..(Len(outcome.returned) - 1) :
            outcome.returned[k].similarity_score = outcome.returned[k + 1].similarity_score
                => FirstPosition(recommender, outcome.returned[k].article_id)
                      < FirstPosition(recommender, outcome.returned[k + 1].article_id)

\* C13: while callers interleave recommend and recommend_for_content on one fitted
\* model, no step writes the corpus, the mapping, the matrix or the vocabulary, and
\* a call that finishes answers what it answers when it runs alone.
C13_ReadersDoNotInterfere ==
    [][FittedModel(recommender) =>
          /\ recommender' = recommender
          /\ \A c \in Callers :
                (calls[c].pc # "done" /\ calls'[c].pc = "done")
                    => Answer(calls'[c]) = Alone(recommender, calls'[c])]_vars

\* C13, its case: a recommend and a recommend_for_content are both past their
\* reads of the mapping, the vocabulary and the matrix and not yet returned, and
\* both have rows to return
C13_BothInFlight ==
    /\ calls["caller1"].pc = "collect" /\ calls["caller1"].op = "recommend"
    /\ calls["caller2"].pc = "collect" /\ calls["caller2"].op = "recommend_for_content"
    /\ calls["caller1"].indices # <<>>
    /\ \E k \in 1..Len(calls["caller2"].indices) :
          Positive(calls["caller2"].similarities[calls["caller2"].indices[k] + 1])

C15_ScoresWithinUnit ==
    (outcome.op \in {"recommend", "recommend_for_content"} /\ outcome.raised = NoError) =>
        \A k \in 1..Len(outcome.returned) :
            LET score == outcome.returned[k].similarity_score
            IN  /\ score.num >= 0
                /\ \/ score.num < score.den
                   \/ score.num = score.den /\ score.ulps <= 0

\* C16 (as claimed): on a fitted model, recommend(article_id, n) for an identifier
\* the corpus holds answers from the similarities to the vector at the row
\* position of the first corpus row that carries the identifier.
C16_UsesFirstMatchingRow ==
    (/\ outcome.op = "recommend"
     /\ FittedModel(recommender)
     /\ InCorpus(recommender, outcome.article_id))
    => [raised |-> outcome.raised, returned |-> outcome.returned]
          = recommend_similar(recommender, argsortTies,
                              FirstPosition(recommender, Some(outcome.article_id)), outcome.n)

\* C17 (as claimed): every item returned by recommend or recommend_for_content
\* carries as source the source name of its corpus row, and "Unknown" when the
\* corpus has no source_name column or the row has no value in it.
C17_SourceOrUnknown ==
    (/\ outcome.op \in {"recommend", "recommend_for_content"} /\ outcome.raised = NoError
     /\ FittedModel(recommender)
     /\ UniqueIds(recommender))
    => \A k \in 1..Len(outcome.returned) :
          LET article == recommender.articles_df[1].rows[
                             FirstPosition(recommender, outcome.returned[k].article_id) + 1]
          IN  outcome.returned[k].source
                 = IF "source_name" \in DOMAIN article /\ article["source_name"] # NaN
                   THEN article["source_name"]
                   ELSE Some("Unknown")

\* C18 (as claimed): a well-formed recommendation request that arrives while the
\* serving process holds no fitted model (no recommender object, or one that was
\* never fitted) is answered with status 503.
C18_NoModelGives503 ==
    (outcome.op \in RecommendationEndpoints /\ ~InvalidRequest /\ ~HoldsFittedModel(app))
        => outcome.status = 503

\* C19: a request whose n is outside 1..20, whose query is absent or shorter than
\* 10 characters, or whose limit is outside 1..50 is answered with status 422, and
\* neither a recommender method nor a warehouse query has run for it.
C19_InvalidGives422 ==
    InvalidRequest => (outcome.status = 422 /\ outcome.called = <<>> /\ outcome.queries = <<>>)

\* C19, its case: a request with n above 20 was answered 422 by a process that
\* holds no recommender, and could have answered 503
C19_RejectedBeforeAvailability ==
    /\ outcome.op = "get_recommendations"
    /\ outcome.n > n_le
    /\ app.recommender = None
    /\ outcome.status = 422

C21_NoSkew ==
    recommender.tfidf_matrix # None =>
        LET rows == Len(recommender.tfidf_matrix[1])
            statistics == get_statistics(recommender)[1]
        IN  /\ rows = NumRows(recommender)
            /\ rows = Len(recommender.article_mapping)
            /\ \A k \in 1..Len(recommender.article_mapping) :
                  recommender.article_mapping[k].key \in 0..(rows - 1)
            /\ statistics.num_articles = statistics.feature_matrix_shape[1]

\* C22 (as claimed): on a fitted model with N rows, recommend(article_id, n) for an
\* identifier the corpus holds and n >= 1 returns exactly min(n, N - 1) items.
C22_ExactlyMinOfNAndOthers ==
    (/\ outcome.op = "recommend"
     /\ FittedModel(recommender)
     /\ InCorpus(recommender, outcome.article_id)
     /\ outcome.n >= 1)
    => /\ outcome.raised = NoError
       /\ Len(outcome.returned) = Min(outcome.n, NumRows(recommender) - 1)

\* the positions of the corpus rows other than the first row that carries the identifier
OtherRows(self, article_id) ==
    (0..(NumRows(self) - 1)) \ {FirstPosition(self, Some(article_id))}

\* the similarity of every corpus row to the first row that carries the identifier
ScoresTo(self, article_id) ==
    cosine_similarity(self.tfidf_matrix[1][FirstPosition(self, Some(article_id)) + 1],
                      self.tfidf_matrix[1])

\* the list shows, in this order, the rows at the positions pos
Shows(self, similarities, returned, pos) ==
    /\ Len(pos) = Len(returned)
    /\ \A j, k \in 1..Len(pos) : pos[j] = pos[k] => j = k
    /\ \A k \in 1..Len(pos) :
          recommendation(self.articles_df[1], similarities, pos[k])
              = [raised |-> NoError, item |-> returned[k]]

\* C23 (as claimed): on a fitted model, the list recommend(article_id, n) returns
\* for an identifier the corpus holds is in non-increasing score order and shows
\* distinct rows other than the query row, none of the other rows left out
\* scoring strictly higher than a row shown.
C23_BestOfTheOthers ==
    (/\ Returned("recommend")
     /\ FittedModel(recommender)
     /\ InCorpus(recommender, outcome.article_id))
    => LET others == OtherRows(recommender, outcome.article_id)
           similarities == ScoresTo(recommender, outcome.article_id)
       IN  /\ \A k \in 1..(Len(outcome.returned) - 1) :
                 ~Less(outcome.returned[k].similarity_score,
                       outcome.returned[k + 1].similarity_score)
           /\ \E pos \in [1..Len(outcome.returned) -> others] :
                 /\ Shows(recommender, similarities, outcome.returned, pos)
                 /\ \A p \in others :
                       (\A k \in 1..Len(pos) : pos[k] # p) =>
                           \A k \in 1..Len(pos) :
                               ~Less(similarities[pos[k] + 1], similarities[p + 1])

\* the similarity of every corpus row to a query text
ScoresOf(self, content) ==
    cosine_similarity(transform(self.vectorizer, content), self.tfidf_matrix[1])

\* the descending ranking of all corpus rows, restricted to the rows that score above 0
PositiveRanking(similarities, ties) ==
    SelectSeq(Reverse(argsort(similarities, ties)), LAMBDA idx : Positive(similarities[idx + 1]))

\* C24: the list recommend_for_content(text, n) returns is the first n entries of
\* the descending ranking of all corpus rows restricted to the rows that score
\* above 0, and it is in non-increasing score order.
C24_FilterThenTopN ==
    Returned("recommend_for_content") =>
        LET similarities == ScoresOf(recommender, outcome.content)
            first == PySlice(PositiveRanking(similarities, argsortTies), 0, outcome.n)
        IN  /\ recommendations(recommender.articles_df[1], similarities, first)
                  = [raised |-> NoError, returned |-> outcome.returned]
            /\ \A k \in 1..(Len(outcome.returned) - 1) :
                  ~Less(outcome.returned[k].similarity_score,
                        outcome.returned[k + 1].similarity_score)

\* C24, its case: recommend_for_content returned n items of a fitted model that
\* has more than n rows scoring above 0 and also a row scoring 0
C24_CutAmongPositive ==
    /\ Returned("recommend_for_content")
    /\ FittedModel(recommender)
    /\ Len(outcome.returned) = outcome.n
    /\ LET similarities == ScoresOf(recommender, outcome.content)
       IN  /\ Len(PositiveRanking(similarities, argsortTies)) > outcome.n
           /\ \E i \in 1..Len(similarities) : ~Positive(similarities[i])

\* the text has terms, and the vocabulary knows none of them
OutOfVocabulary(self, content) ==
    /\ FeaturesOf(Analyze(content)) # {}
    /\ FeaturesOf(Analyze(content)) \cap self.vectorizer.vocabulary_[1] = {}

\* the features the matrix has a column for
MatrixColumns(self) == DOMAIN self.tfidf_matrix[1][1]

\* C25: no step of a query adds a term to the vocabulary or changes the width of
\* the matrix, and a recommend_for_content whose text has only terms outside the
\* vocabulary returns the empty list and raises nothing.
C25_VocabularyFrozen ==
    [][/\ recommender'.vectorizer.vocabulary_ = recommender.vectorizer.vocabulary_
       /\ MatrixColumns(recommender') = MatrixColumns(recommender)
       /\ \A c \in Callers :
             (/\ calls[c].pc # "done" /\ calls'[c].pc = "done"
              /\ calls'[c].op = "recommend_for_content"
              /\ OutOfVocabulary(recommender, calls'[c].content))
             => Answer(calls'[c]) = [raised |-> NoError, returned |-> <<>>]]_vars

\* C25, its case: a recommend_for_content whose text has a term, none of them in
\* the vocabulary, has returned; the model has rows for other texts
C25_UnknownTermsAsked ==
    \E c \in Callers :
        /\ calls[c].pc = "done" /\ calls[c].op = "recommend_for_content"
        /\ OutOfVocabulary(recommender, calls[c].content)
        /\ calls[c].returned = <<>> /\ calls[c].raised = NoError
        /\ recommend_for_content(recommender, argsortTies, <<"ml">>, 1).returned # <<>>

\* what the recommender of the serving process answers to the last request
Recommended ==
    IF outcome.op = "get_recommendations"
    THEN recommend(app.recommender[1], argsortTies, outcome.article_id, outcome.n)
    ELSE recommend_for_content(app.recommender[1], argsortTies, outcome.query[1], outcome.n)

\* C26 (as claimed): a well-formed recommendation request for which the loaded
\* model returns the empty list is answered with status 404.
C26_EmptyGives404 ==
    (/\ outcome.op \in RecommendationEndpoints
     /\ ~InvalidRequest
     /\ HoldsFittedModel(app)
     /\ Recommended = [raised |-> NoError, returned |-> <<>>])
    => outcome.status = 404

\* two models answer every call alike
SameAnswers(a, b) ==
    /\ SameRecommendations(a, b)
    /\ \A content \in Queries, n \in Ns :
          recommend_for_content(a, argsortTies, content, n)
              = recommend_for_content(b, argsortTies, content, n)

\* the step is a call of fit on the recommender object at this address
FitOn(at) == outcome'.op = "fit" /\ objects'.fitted = Some(at)

\* C27: no step other than a fit called on it changes a recommender object: not a
\* change the caller makes to the table it passed to fit, after which the model
\* keeps its corpus and its answers, and not a train_from_csv or a load_model,
\* which bind the trainer to an object that did not exist before the call (or
\* leave the binding alone when they raise early), so that an object returned
\* earlier keeps its corpus, mapping, matrix and vocabulary.
C27_ObjectsNotShared ==
    [][/\ \A at \in 1..Len(objects.recommenders) :
             ~FitOn(at) => Deref(objects', at) = Deref(objects, at)
       /\ (outcome'.op = "table changed" /\ Deref(objects, objects.fitted[1]).tfidf_matrix # None)
             => SameAnswers(Deref(objects', objects.fitted[1]), Deref(objects, objects.fitted[1]))
       /\ outcome'.op \in {"train_from_csv", "load_model"} =>
             \/ objects'.trainer = objects.trainer
             \/ objects'.trainer[1] \notin 1..Len(objects.recommenders)]_vars

\* C27, its case: a reader holds a fitted model that an earlier call returned and
\* the trainer is by now bound to another model; and a caller has changed the
\* table it had passed to the fit of its own model
C27_HeldWhileReplaced ==
    /\ objects.earlier # None /\ objects.trainer # objects.earlier
    /\ FittedModel(Deref(objects, objects.earlier[1]))
    /\ Deref(objects, objects.trainer[1]) # Deref(objects, objects.earlier[1])
    /\ objects.fitted # None /\ objects.passed # None
    /\ FittedModel(Deref(objects, objects.fitted[1]))
    /\ objects.tables[objects.passed[1]] # Deref(objects, objects.fitted[1]).articles_df[1]

\* C28 (as claimed): a train_from_csv that raises leaves the trainer's held model
\* as it was before the call.
C28_FailedTrainingKeepsModel ==
    [][(outcome'.op = "train_from_csv" /\ outcome'.raised # NoError)
        => trainers'[outcome'.trainer].recommender = trainers[outcome'.trainer].recommender]_vars

\* C29 (as claimed): on a fitted model, recommend for an identifier the corpus
\* holds and recommend_for_content return the empty list when n <= 0.
C29_NonPositiveGivesNothing ==
    (/\ outcome.op \in {"recommend", "recommend_for_content"}
     /\ outcome.n <= 0
     /\ FittedModel(recommender)
     /\ outcome.op = "recommend" => InCorpus(recommender, outcome.article_id))
    => (outcome.raised = NoError /\ outcome.returned = <<>>)

\* C30 (as claimed): on a DatabaseManager on which no connect has succeeded,
\* create_schema, get_session, execute_query and execute_insert raise RuntimeError
\* and call nothing on an engine, table_exists returns False, get_table_count
\* returns 0, disconnect disposes of nothing, and none of them changes the engine
\* or the session factory.
C30_UnconnectedManager ==
    [][~db.connected =>
          /\ outcome'.op \in {"create_schema", "get_session", "execute_query", "execute_insert"}
                => (outcome'.raised = "RuntimeError" /\ outcome'.called = <<>>)
          /\ outcome'.op = "table_exists" => outcome'.returned = Some(FALSE)
          /\ outcome'.op = "get_table_count" => outcome'.returned = Some(0)
          /\ outcome'.op = "disconnect" => outcome'.called = <<>>
          /\ outcome'.op \in {"create_schema", "get_session", "execute_query", "execute_insert",
                              "table_exists", "get_table_count", "disconnect"}
                => (db'.engine = db.engine /\ db'.SessionLocal = db.SessionLocal)]_vars

====
